---- MODULE Spec2Model ----
(***************************************************************************)
(* Dual-transport ingestion core of the IoT monitoring backend:            *)
(*   - MQTTClient (primary adapter)        src/src/mqtt-client.js          *)
(*   - WebSocketClient (secondary adapter) src/unnamed/part_000:1-189      *)
(*   - InfluxDBWriter (sink)               src/unnamed/part_000:191-375    *)
(*   - Application (failover controller)   src/unnamed/part_001:146-396    *)
(*                                                                         *)
(* One JavaScript callback (a macrotask, or the continuation of an await)  *)
(* is one action.  Event emission is synchronous in Node, so a handler     *)
(* that emits an event contains the listeners it reaches.                  *)
(***************************************************************************)
EXTENDS Integers, Sequences, FiniteSets, TLC

(***************************************************************************)
(* Bounds of the model.                                                    *)
(***************************************************************************)
MaxAdapters == 3           \* adapter instances constructed in one run
MaxTimers == 2             \* pending grace / cooldown timers of the controller
MaxMqttReconnects == 1     \* 'reconnect' events of one primary between two connects
MaxData == 1               \* data events handled by the controller (dataPointCount)
MaxArrivals == 3           \* raw messages of one feed (arrival-order runs)
MaxBuf == 4                \* length of the sink's buffer
MaxBatch == 2              \* points in the write batch between two flushes
MaxProcs == 1              \* flush callbacks in progress at the same time
MaxFlushTimers == 1        \* interval timers started by connect()
\* config.websocket.options.maxReconnectAttempts is 10 (part_000:408); the
\* model runs the same code with a smaller retry budget.
maxReconnectAttempts == 1

(***************************************************************************)
(* JSON values as the validator sees them.                                 *)
(* A field value is absent (the key is not in the object), a value that    *)
(* parses to NaN (null, "abc", an object), or a number n, or n + 0.5 when  *)
(* half is set (n any integer, so -1 with half set is -0.5).               *)
(***************************************************************************)
Absent == [k |-> "absent", n |-> 0, half |-> FALSE]
NotNumeric == [k |-> "nan", n |-> 0, half |-> FALSE]
Num(n) == [k |-> "num", n |-> n, half |-> FALSE]
NumHalf(n) == [k |-> "num", n |-> n, half |-> TRUE]

\* DataValidator.requiredFields (part_001:8)
requiredFields == <<"temperature", "humidity", "pm1", "pm2_5", "pm10">>

Fields == {requiredFields[i] : i \in 1 .. Len(requiredFields)}

\* DataValidator.ranges (part_001:11-17)
ranges ==
    [temperature |-> [min |-> -50, max |-> 100],
     humidity |-> [min |-> 0, max |-> 100],
     pm1 |-> [min |-> 0, max |-> 1000],
     pm2_5 |-> [min |-> 0, max |-> 1000],
     pm10 |-> [min |-> 0, max |-> 1000]]

\* A parsed number: NaN, or n (+ 0.5 when half)
NaN == [nan |-> TRUE, n |-> 0, half |-> FALSE]
Number(n, half) == [nan |-> FALSE, n |-> n, half |-> half]

\* parseFloat(v): the number itself
parseFloat(v) == IF v.k = "num" THEN Number(v.n, v.half) ELSE NaN

\* parseInt(v, 10): the integer part, the fraction is cut off towards zero
parseInt(v) ==
    IF v.k # "num" THEN NaN
    ELSE IF v.half /\ v.n < 0 THEN Number(v.n + 1, FALSE)
    ELSE Number(v.n, FALSE)

\* Mutant: the bounds are exclusive.
isInRange_exclusive(value, range) ==
    /\ value.n > range.min \/ (value.n = range.min /\ value.half)
    /\ value.n < range.max

\* DataValidator.isInRange (part_001:125-127):
\* value >= range.min && value <= range.max
isInRange(value, range) ==
    /\ value.n >= range.min
    /\ IF value.half THEN value.n < range.max ELSE value.n <= range.max

\* A decoded JSON value: null, another falsy value (0, false, ""), a truthy
\* value that is no object (5, "x", true), or an object.  Of an object the
\* model keeps the five sensor fields and the key `payload`, which is absent,
\* falsy, an object (its sensor fields in pf), or a string (a JSON text that
\* is malformed, or the text of the object with the fields pf).
NoFields == [f \in Fields |-> Absent]

JsonNull == [type |-> "null", f |-> NoFields, payload |-> "absent", pf |-> NoFields]
JsonFalsy == [type |-> "falsy", f |-> NoFields, payload |-> "absent", pf |-> NoFields]
JsonScalar == [type |-> "scalar", f |-> NoFields, payload |-> "absent", pf |-> NoFields]
JsonObject(f) == [type |-> "object", f |-> f, payload |-> "absent", pf |-> NoFields]
Envelope(f, payload, pf) == [type |-> "object", f |-> f, payload |-> payload, pf |-> pf]

PayloadKinds == {"absent", "falsy", "object", "string", "malformed"}

\* A raw message: a text that is well-formed JSON of a value, or is not
Malformed == [wf |-> FALSE, value |-> JsonNull]
Text(value) == [wf |-> TRUE, value |-> value]

\* DataValidator.parseJSON (part_001:134-141): JSON.parse, null on a throw
parseJSON(text) == IF text.wf THEN text.value ELSE JsonNull

\* The result of validate: data is null or the validated object
Null == [null |-> TRUE]

Err(kind, fields, range) == [kind |-> kind, fields |-> fields, range |-> range]
NoRange == [min |-> 0, max |-> 0]

\* Mutant: the field blocks do not check the range.
checkField_ignoresRange(data, field) ==
    LET raw == data.f[field]
        parsed == IF field \in {"temperature", "humidity"}
                  THEN parseFloat(raw) ELSE parseInt(raw)
    IN IF raw.k = "absent" THEN [errors |-> <<>>, has |-> FALSE, value |-> NaN]
       ELSE IF parsed.nan
       THEN [errors |-> <<Err("nan", <<field>>, NoRange)>>, has |-> FALSE, value |-> NaN]
       ELSE [errors |-> <<>>, has |-> TRUE, value |-> parsed]

\* One of the five field blocks of validate (part_001:46-104): parse the field
\* when it is present; record an error or the parsed value.
checkField(data, field) ==
    LET raw == data.f[field]
        parsed == IF field \in {"temperature", "humidity"}
                  THEN parseFloat(raw) ELSE parseInt(raw)
    IN IF raw.k = "absent" THEN [errors |-> <<>>, has |-> FALSE, value |-> NaN]
       ELSE IF parsed.nan
       THEN [errors |-> <<Err("nan", <<field>>, NoRange)>>, has |-> FALSE, value |-> NaN]
       ELSE IF ~isInRange(parsed, ranges[field])
       THEN [errors |-> <<Err("range", <<field>>, ranges[field])>>, has |-> FALSE,
             value |-> NaN]
       ELSE [errors |-> <<>>, has |-> TRUE, value |-> parsed]

\* Mutant: validate returns the validated fields whether or not it found errors.
validate_keepsData(data) ==
    IF data.type # "object"
    THEN [valid |-> FALSE, data |-> Null,
          errors |-> <<Err("object", <<>>, NoRange)>>]
    ELSE LET missingFields == SelectSeq(requiredFields,
                                        LAMBDA field : data.f[field].k = "absent")
             check == [field \in Fields |-> checkField(data, field)]
             errors == (IF Len(missingFields) > 0
                        THEN <<Err("missing", missingFields, NoRange)>> ELSE <<>>)
                       \o check["temperature"].errors \o check["humidity"].errors
                       \o check["pm1"].errors \o check["pm2_5"].errors
                       \o check["pm10"].errors
             validatedData == [field \in {g \in Fields : check[g].has} |->
                                 check[field].value]
         IN [valid |-> Len(errors) = 0, data |-> validatedData, errors |-> errors]

\* Mutant: validate returns at the first field block that records an error.
validate_shortCircuits(data) ==
    IF data.type # "object"
    THEN [valid |-> FALSE, data |-> Null,
          errors |-> <<Err("object", <<>>, NoRange)>>]
    ELSE LET missingFields == SelectSeq(requiredFields,
                                        LAMBDA field : data.f[field].k = "absent")
             check == [field \in Fields |-> checkField(data, field)]
             all == (IF Len(missingFields) > 0
                     THEN <<Err("missing", missingFields, NoRange)>> ELSE <<>>)
                    \o check["temperature"].errors \o check["humidity"].errors
                    \o check["pm1"].errors \o check["pm2_5"].errors
                    \o check["pm10"].errors
             errors == IF Len(all) > 0 THEN <<all[1]>> ELSE <<>>
             validatedData == [field \in {g \in Fields : check[g].has} |->
                                 check[field].value]
             valid == Len(errors) = 0
         IN [valid |-> valid,
             data |-> IF valid THEN validatedData ELSE Null,
             errors |-> errors]

\* Mutant: validate does not look for missing fields.
validate_ignoresMissing(data) ==
    IF data.type # "object"
    THEN [valid |-> FALSE, data |-> Null,
          errors |-> <<Err("object", <<>>, NoRange)>>]
    ELSE LET check == [field \in Fields |-> checkField(data, field)]
             errors == check["temperature"].errors \o check["humidity"].errors
                       \o check["pm1"].errors \o check["pm2_5"].errors
                       \o check["pm10"].errors
             validatedData == [field \in {g \in Fields : check[g].has} |->
                                 check[field].value]
             valid == Len(errors) = 0
         IN [valid |-> valid,
             data |-> IF valid THEN validatedData ELSE Null,
             errors |-> errors]

\* DataValidator.validate (part_001:25-117)
validate(data) ==
    IF data.type # "object"
    THEN [valid |-> FALSE, data |-> Null,
          errors |-> <<Err("object", <<>>, NoRange)>>]
    ELSE LET missingFields == SelectSeq(requiredFields,
                                        LAMBDA field : data.f[field].k = "absent")
             check == [field \in Fields |-> checkField(data, field)]
             errors == (IF Len(missingFields) > 0
                        THEN <<Err("missing", missingFields, NoRange)>> ELSE <<>>)
                       \o check["temperature"].errors \o check["humidity"].errors
                       \o check["pm1"].errors \o check["pm2_5"].errors
                       \o check["pm10"].errors
             validatedData == [field \in {g \in Fields : check[g].has} |->
                                 check[field].value]
             valid == Len(errors) = 0
         IN [valid |-> valid,
             data |-> IF valid THEN validatedData ELSE Null,
             errors |-> errors]

\* The lines validate writes to the logger (part_001:108-110): a warning when
\* an object has errors; the early return for a non-object writes none.
validate_log(data) ==
    IF data.type = "object" /\ ~validate(data).valid
    THEN <<[level |-> "warn", message |-> "Data validation failed"]>>
    ELSE <<>>

\* Two valid sensor objects, and the records validate makes of them (the
\* PM fields lose their fraction).
Sensor1 ==
    JsonObject([temperature |-> NumHalf(25), humidity |-> Num(60), pm1 |-> Num(5),
                pm2_5 |-> NumHalf(12), pm10 |-> Num(20)])
Sensor2 ==
    JsonObject([temperature |-> Num(-50), humidity |-> Num(100), pm1 |-> Num(0),
                pm2_5 |-> Num(1000), pm10 |-> NumHalf(1000)])

Record1 == validate(Sensor1).data
Record2 == validate(Sensor2).data

Records == {Record1, Record2}   \* validated sensor records the sink is handed
StdTags == "std"           \* the fixed tag set of handleSensorData
Tags == {"std", "null"}    \* tags values a caller of writeData can pass

VARIABLES
    phase,          \* "new" | "running" | "shutdown" | "exited"; "component" when
                    \* the sink is driven on its own
    env,            \* configuration of the run: which constructors throw
    dataClient,     \* Application.dataClient: 0 (null) or an adapter instance
    useMQTT,        \* Application.useMQTT
    dataPointCount, \* Application.dataPointCount
    adapters,       \* every adapter instance constructed so far
    timers,         \* pending setTimeout callbacks of the Application, oldest first
    sink,           \* the InfluxDBWriter singleton
    input,          \* the argument of the function under study, when a function
                    \* is studied on its own (a JSON value or a raw message)
    result,         \* and its result, once it was applied
    last            \* what the last step was (history): a writeData call with
                    \* its arguments and result, a timer of the controller, the
                    \* end of a flush or of a drain loop, an opened connection
                    \* with what its handler sent

vars ==
    <<phase, env, dataClient, useMQTT, dataPointCount, adapters, timers, sink, input,
      result, last>>

NoInput == JsonNull
NoResult == [done |-> FALSE]

(***************************************************************************)
(* Adapter instances.  conn is the state of the underlying client:        *)
(*   "none"        no client object (this.client / this.ws is null)        *)
(*   "connecting"  a connection attempt is in progress                     *)
(*   "open"        the connection is established                           *)
(*   "waiting"     mqtt only: closed, the library will reconnect by itself *)
(*   "closing"     end() / close() was called, the close is in progress    *)
(*   "closed"      closed for good                                         *)
(* wired means the Application's listeners are attached to the wrapper.    *)
(***************************************************************************)
MQTTClient ==
    [kind |-> "mqtt", wired |-> FALSE, isConnected |-> FALSE, reconnectAttempts |-> 0,
     conn |-> "none", timer |-> FALSE, connectCalled |-> FALSE]

WebSocketClient ==
    [kind |-> "ws", wired |-> FALSE, isConnected |-> FALSE, reconnectAttempts |-> 0,
     conn |-> "none", timer |-> FALSE, connectCalled |-> FALSE]

\* The controller's part of the state, as one value the handlers transform.
App ==
    [dataClient |-> dataClient, useMQTT |-> useMQTT, adapters |-> adapters,
     timers |-> timers]

Ids(c) == 1 .. Len(c.adapters)

connected(c, a) == c.adapters[a].isConnected

GraceTimer(a) == [type |-> "grace", by |-> a]
CooldownTimer(a) == [type |-> "cooldown", by |-> a]

Fits(c) == Len(c.adapters) <= MaxAdapters /\ Len(c.timers) <= MaxTimers

(***************************************************************************)
(* The adapters' handlers of an opened connection.  Each thing the handler *)
(* does towards the outside (a subscribe call, a control message sent, an  *)
(* event emitted) is recorded with what connected() returned and what the  *)
(* reconnect counter was at that moment.                                   *)
(***************************************************************************)
Topic == "config.mqtt.topic"

Did(kind, name, topic, r) ==
    [kind |-> kind, name |-> name, topic |-> topic, connected |-> r.isConnected,
     reconnectAttempts |-> r.reconnectAttempts]

\* The 'connect' handler of MQTTClient (mqtt-client.js:65-83); the callback
\* of subscribe only logs.
MQTTClient_onConnect(r) ==
    LET r1 == [r EXCEPT !.isConnected = TRUE]
        r2 == [r1 EXCEPT !.reconnectAttempts = 0]
    IN [r |-> [r2 EXCEPT !.conn = "open"],
        sent |-> <<Did("call", "subscribe", Topic, r2),
                   Did("emit", "connected", "", r2)>>]

\* Mutant: the secondary subscribes on its first connection only.
WebSocketClient_onOpen_firstOnly(r) ==
    LET r2 == [r EXCEPT !.isConnected = TRUE, !.reconnectAttempts = 0]
    IN [r |-> [r2 EXCEPT !.conn = "open"],
        sent |-> (IF r.reconnectAttempts = 0
                  THEN <<Did("send", "subscribe", Topic, r2)>> ELSE <<>>)
                 \o <<Did("emit", "connected", "", r2)>>]

\* The 'open' handler of WebSocketClient (part_000:52-65): the subscription
\* is the control message {action: 'subscribe', topic} sent on the socket.
WebSocketClient_onOpen(r) ==
    LET r1 == [r EXCEPT !.isConnected = TRUE]
        r2 == [r1 EXCEPT !.reconnectAttempts = 0]
    IN [r |-> [r2 EXCEPT !.conn = "open"],
        sent |-> <<Did("send", "subscribe", Topic, r2),
                   Did("emit", "connected", "", r2)>>]

(***************************************************************************)
(* Application: the listeners it attaches, and the two selection steps.    *)
(***************************************************************************)
\* The 'error' listener of the primary (part_001:211-223): while useMQTT holds
\* it starts a 5 s grace timer; the check of connected() is left to the timer.
onPrimaryError(c, a) ==
    IF c.useMQTT THEN [c EXCEPT !.timers = Append(@, GraceTimer(a))] ELSE c

\* Mutant: the 'failed' listener only logs.
onSecondaryFailed_logsOnly(c, a) == c

\* The 'failed' listener of the secondary (part_001:251-258): a 10 s cooldown.
onSecondaryFailed(c, a) == [c EXCEPT !.timers = Append(@, CooldownTimer(a))]

\* wrapper.emit('error'): the listener the Application attached to this kind
\* of adapter; the secondary's listener only logs (part_001:247-249).
emitError(c, a) ==
    IF ~c.adapters[a].wired THEN c
    ELSE IF c.adapters[a].kind = "mqtt" THEN onPrimaryError(c, a)
    ELSE c

\* wrapper.emit('failed')
emitFailed(c, a) ==
    IF c.adapters[a].wired THEN onSecondaryFailed(c, a) ELSE c

\* MQTTClient.connect (mqtt-client.js:21-58).  mqtt.connect either returns a
\* client that starts connecting, or throws: then the wrapper emits 'error'.
MQTTClient_connect(c, a, e) ==
    LET c1 == [c EXCEPT !.adapters[a].connectCalled = TRUE] IN
    IF e.mqttThrows THEN emitError(c1, a)
    ELSE [c1 EXCEPT !.adapters[a].conn = "connecting"]

\* MQTTClient.disconnect (mqtt-client.js:161-168): client.end(false, cb); the
\* flag isConnected is only cleared by cb (see MqttEndDone).
MQTTClient_disconnect(c, a) ==
    IF c.adapters[a].conn = "none" THEN c
    ELSE [c EXCEPT !.adapters[a].conn = IF @ = "closed" THEN "closed" ELSE "closing"]

\* Mutant: scheduleReconnect never gives up.
scheduleReconnect_unbounded(c, a) ==
    [c EXCEPT !.adapters[a].reconnectAttempts =
                  IF @ < maxReconnectAttempts THEN @ + 1 ELSE @,
              !.adapters[a].timer = TRUE]

\* WebSocketClient.scheduleReconnect (part_000:139-162)
scheduleReconnect(c, a) ==
    IF c.adapters[a].reconnectAttempts >= maxReconnectAttempts
    THEN emitFailed(c, a)
    ELSE [c EXCEPT !.adapters[a].reconnectAttempts = @ + 1,
                   !.adapters[a].timer = TRUE]

\* WebSocketClient.connect (part_000:24-45).  new WebSocket(url) either
\* returns a socket that starts connecting, or throws: then the wrapper emits
\* 'error' and schedules a reconnect; this.ws keeps its previous value.
WebSocketClient_connect(c, a, e) ==
    LET c1 == [c EXCEPT !.adapters[a].connectCalled = TRUE] IN
    IF e.wsThrows THEN scheduleReconnect(emitError(c1, a), a)
    ELSE [c1 EXCEPT !.adapters[a].conn = "connecting"]

\* WebSocketClient.disconnect (part_000:167-178)
WebSocketClient_disconnect(c, a) ==
    LET c1 == [c EXCEPT !.adapters[a].timer = FALSE] IN
    IF c1.adapters[a].conn = "none" THEN c1
    ELSE [c1 EXCEPT !.adapters[a].conn =
                        IF @ \in {"connecting", "open"} THEN "closing" ELSE @,
                    !.adapters[a].isConnected = FALSE]

\* dataClient.disconnect(), whichever class the instance has
disconnect(c, a) ==
    IF c.adapters[a].kind = "mqtt" THEN MQTTClient_disconnect(c, a)
    ELSE WebSocketClient_disconnect(c, a)

\* EventEmitter.removeAllListeners on the wrapper
removeAllListeners(c, a) == [c EXCEPT !.adapters[a].wired = FALSE]

\* Mutant: startDataClient leaves useMQTT as it is.
startDataClient_keepsMode(c, e) ==
    LET a == Len(c.adapters) + 1
        c1 == [c EXCEPT !.adapters = Append(@, [MQTTClient EXCEPT !.wired = TRUE]),
                        !.dataClient = a]
    IN MQTTClient_connect(c1, a, e)

\* Application.startDataClient (part_001:201-227)
startDataClient(c, e) ==
    LET a == Len(c.adapters) + 1
        c1 == [c EXCEPT !.adapters = Append(@, [MQTTClient EXCEPT !.wired = TRUE]),
                        !.dataClient = a,
                        !.useMQTT = TRUE]
    IN MQTTClient_connect(c1, a, e)

\* Mutant: switchToWebSocket leaves useMQTT as it is.
switchToWebSocket_keepsMode(c, e) ==
    LET c0 == IF c.dataClient # 0 /\ c.useMQTT
              THEN removeAllListeners(disconnect(c, c.dataClient), c.dataClient)
              ELSE c
        a == Len(c0.adapters) + 1
        c1 == [c0 EXCEPT !.adapters = Append(@, [WebSocketClient EXCEPT !.wired = TRUE]),
                         !.dataClient = a]
    IN WebSocketClient_connect(c1, a, e)

\* Mutant: switchToWebSocket disconnects the primary but keeps its listeners.
switchToWebSocket_keepsListeners(c, e) ==
    LET c0 == IF c.dataClient # 0 /\ c.useMQTT
              THEN disconnect(c, c.dataClient)
              ELSE c
        a == Len(c0.adapters) + 1
        c1 == [c0 EXCEPT !.adapters = Append(@, [WebSocketClient EXCEPT !.wired = TRUE]),
                         !.dataClient = a,
                         !.useMQTT = FALSE]
    IN WebSocketClient_connect(c1, a, e)

\* Application.switchToWebSocket (part_001:232-262)
switchToWebSocket(c, e) ==
    LET c0 == IF c.dataClient # 0 /\ c.useMQTT
              THEN removeAllListeners(disconnect(c, c.dataClient), c.dataClient)
              ELSE c
        a == Len(c0.adapters) + 1
        c1 == [c0 EXCEPT !.adapters = Append(@, [WebSocketClient EXCEPT !.wired = TRUE]),
                         !.dataClient = a,
                         !.useMQTT = FALSE]
    IN WebSocketClient_connect(c1, a, e)

\* Mutant: the grace timer switches without asking connected().
graceTimeout_alwaysSwitches(c, e) == switchToWebSocket(c, e)

\* The grace timer's callback (part_001:216-221)
graceTimeout(c, e) ==
    IF ~connected(c, c.dataClient) THEN switchToWebSocket(c, e) ELSE c

\* The cooldown timer's callback (part_001:254-257)
cooldownTimeout(c, e) == startDataClient(c, e)

\* The dataClient part of the answer to GET /health (part_001:312-315)
healthStatus(c) ==
    [type |-> IF c.useMQTT THEN "MQTT" ELSE "WebSocket",
     connected |-> IF c.dataClient # 0 THEN connected(c, c.dataClient) ELSE FALSE]

\* Timers of one delay fire in the order they were started, and a timer of
\* 10 s never fires before a timer of 5 s that was started earlier.
RemoveAt(s, i) == SubSeq(s, 1, i - 1) \o SubSeq(s, i + 1, Len(s))

CanFire(ts, i) ==
    /\ i \in 1 .. Len(ts)
    /\ \A j \in 1 .. i - 1 : ts[j].type # "grace"
    /\ ts[i].type = "cooldown" => i = 1

(***************************************************************************)
(* InfluxDBWriter.  writeApi is TRUE when this.writeApi is an object.      *)
(* batch holds the points handed to writeApi.writePoint since the last     *)
(* flush.  procs are the callbacks of the flush interval that are          *)
(* suspended at an await:                                                  *)
(*   pc    "flushing" at `await this.writeApi.flush()`,                    *)
(*         "draining" at `await this.writeData(...)` inside the loop       *)
(*   i     number of items the loop has taken from the array               *)
(*   live  the array the loop iterates is still this.buffer                *)
(*   arr   that array, once this.buffer was replaced by a new one          *)
(*   snap  this.buffer as it was when the loop started (history)           *)
(* closing is TRUE while close() is suspended at `await writeApi.close()`. *)
(* The enqueue timestamp of a buffered item is never read and is left out. *)
(***************************************************************************)
InfluxDBWriter ==
    [isConnected |-> FALSE, writeApi |-> FALSE, buffer |-> <<>>, batch |-> <<>>,
     flushTimers |-> 0, procs |-> <<>>, closing |-> FALSE]

Item(data, tags) == [data |-> data, tags |-> tags]

NoWrite ==
    [op |-> "none", src |-> 0, data |-> Null, tags |-> "std", ret |-> FALSE,
     threw |-> FALSE, sent |-> <<>>]

\* A step that is no writeData call: op names it, src is the adapter or the
\* flush callback it belongs to, ret its outcome where it has one.
Event(op, src, ret) ==
    [op |-> op, src |-> src, data |-> Null, tags |-> "std", ret |-> ret,
     threw |-> FALSE, sent |-> <<>>]

\* A writeData call: who made it, its arguments, and its outcome w
Call(op, src, data, tags, w) ==
    [op |-> op, src |-> src, data |-> data, tags |-> tags, ret |-> w.ret,
     threw |-> w.threw, sent |-> <<>>]

\* A connection of adapter src has opened: sent is what its handler did
\* towards the broker and its own listeners, in order; attempts is the
\* reconnect counter the handler found (0 on a first connection).
Opened(src, attempts, sent) ==
    [op |-> "open", src |-> src, data |-> Null, tags |-> "std", ret |-> TRUE,
     threw |-> FALSE, sent |-> sent, attempts |-> attempts]

\* InfluxDBWriter.connect (part_000:210-248); ok is FALSE when the client
\* constructor or getWriteApi throws, before this.writeApi is assigned.
InfluxDBWriter_connect(s, ok) ==
    IF ok
    THEN [s EXCEPT !.writeApi = TRUE, !.batch = <<>>, !.isConnected = TRUE,
                   !.flushTimers = @ + 1]
    ELSE [s EXCEPT !.isConnected = FALSE]

\* Mutant: the point is put in front of the pending batch.
writeData_newestFirst(s, data, tags, rejects) ==
    IF ~s.isConnected \/ ~s.writeApi
    THEN [s |-> [s EXCEPT !.buffer = Append(@, Item(data, tags))], ret |-> FALSE,
          threw |-> FALSE]
    ELSE IF rejects \/ tags = "null"
    THEN [s |-> s, ret |-> FALSE, threw |-> FALSE]
    ELSE [s |-> [s EXCEPT !.batch = <<data>> \o @], ret |-> TRUE, threw |-> FALSE]

\* Mutant: a disconnected sink returns false without buffering.
writeData_dropsWhenDisconnected(s, data, tags, rejects) ==
    IF ~s.isConnected \/ ~s.writeApi
    THEN [s |-> s, ret |-> FALSE, threw |-> FALSE]
    ELSE IF rejects \/ tags = "null"
    THEN [s |-> s, ret |-> FALSE, threw |-> FALSE]
    ELSE [s |-> [s EXCEPT !.batch = Append(@, data)], ret |-> TRUE, threw |-> FALSE]

\* Mutant: no try/catch around the write, the error leaves writeData.
writeData_noCatch(s, data, tags, rejects) ==
    IF ~s.isConnected \/ ~s.writeApi
    THEN [s |-> [s EXCEPT !.buffer = Append(@, Item(data, tags))], ret |-> FALSE,
          threw |-> FALSE]
    ELSE IF rejects \/ tags = "null"
    THEN [s |-> s, ret |-> FALSE, threw |-> TRUE]
    ELSE [s |-> [s EXCEPT !.batch = Append(@, data)], ret |-> TRUE, threw |-> FALSE]

\* InfluxDBWriter.writeData (part_000:255-288).  rejects: building the point or
\* writeApi.writePoint throws; tags = null makes `tags.sensor_id` throw.
\* The result is the new sink, the value the call returns, and whether an
\* error left the call (never: the catch returns false).
writeData(s, data, tags, rejects) ==
    IF ~s.isConnected \/ ~s.writeApi
    THEN [s |-> [s EXCEPT !.buffer = Append(@, Item(data, tags))], ret |-> FALSE,
          threw |-> FALSE]
    ELSE IF rejects \/ tags = "null"
    THEN [s |-> s, ret |-> FALSE, threw |-> FALSE]
    ELSE [s |-> [s EXCEPT !.batch = Append(@, data)], ret |-> TRUE, threw |-> FALSE]

Draining(s) == \E p \in 1 .. Len(s.procs) : s.procs[p].pc = "draining"

\* The array a drain loop iterates
LoopArray(s, p) == IF s.procs[p].live THEN s.buffer ELSE s.procs[p].arr

\* Mutant: the loop takes the items from the end of the array.
drainItem_newestFirst(s, p, rejects) ==
    LET arr == LoopArray(s, p)
        it == arr[Len(arr) - s.procs[p].i]
        w == writeData(s, it.data, it.tags, rejects)
    IN [s |-> [w.s EXCEPT !.procs[p].i = @ + 1],
        w |-> Call("drain", p, it.data, it.tags, w)]

\* One pass of `for (const item of this.buffer) await this.writeData(...)`
\* (part_000:303-305): take the next item and call writeData with it.
drainItem(s, p, rejects) ==
    LET it == LoopArray(s, p)[s.procs[p].i + 1]
        w == writeData(s, it.data, it.tags, rejects)
    IN [s |-> [w.s EXCEPT !.procs[p].i = @ + 1],
        w |-> Call("drain", p, it.data, it.tags, w)]

\* The loop is over: `this.buffer = []` (part_000:306).  Loops of other
\* callbacks that iterate the old array keep that array.
drainEnd(s, p) ==
    LET procs1 == [q \in 1 .. Len(s.procs) |->
                     IF q # p /\ s.procs[q].pc = "draining" /\ s.procs[q].live
                     THEN [s.procs[q] EXCEPT !.live = FALSE, !.arr = s.buffer]
                     ELSE s.procs[q]]
    IN [s |-> [s EXCEPT !.buffer = <<>>, !.procs = RemoveAt(procs1, p)],
        w |-> Event("drained", p, TRUE)]

\* The interval fires (part_000:294-297): flush() takes the pending batch.
flushTick(s) ==
    [s EXCEPT !.batch = <<>>,
              !.procs = Append(@, [pc |-> "flushing", i |-> 0, live |-> TRUE,
                                   arr |-> <<>>, snap |-> <<>>])]

\* Mutant: the loop starts whether or not the sink is connected.
flushResolved_ignoresConnected(s, p, ok, rejects) ==
    IF ok /\ Len(s.buffer) > 0
    THEN drainItem([s EXCEPT !.procs[p].pc = "draining", !.procs[p].snap = s.buffer],
                   p, rejects)
    ELSE [s |-> [s EXCEPT !.procs = RemoveAt(@, p)], w |-> Event("flush", p, ok)]

\* `await this.writeApi.flush()` is over (part_000:297-310): on a rejection the
\* catch logs; otherwise the loop starts when the buffer is not empty and the
\* sink is connected, and runs to its first await.
flushResolved(s, p, ok, rejects) ==
    IF ok /\ Len(s.buffer) > 0 /\ s.isConnected
    THEN drainItem([s EXCEPT !.procs[p].pc = "draining", !.procs[p].snap = s.buffer],
                   p, rejects)
    ELSE [s |-> [s EXCEPT !.procs = RemoveAt(@, p)], w |-> Event("flush", p, ok)]

\* The continuation of `await this.writeData(...)`: the next pass of the
\* loop, or its end.
drainNext(s, p, rejects) ==
    IF s.procs[p].i < Len(LoopArray(s, p))
    THEN drainItem(s, p, rejects)
    ELSE drainEnd(s, p)

\* InfluxDBWriter.close up to its await (part_000:362-366)
closeBegin(s) ==
    IF s.writeApi THEN [s EXCEPT !.closing = TRUE]
    ELSE [s EXCEPT !.isConnected = FALSE]

\* InfluxDBWriter.close after its await (part_000:366-371); ok is FALSE when
\* writeApi.close() rejected, and then the catch leaves isConnected alone.
closeEnd(s, ok) ==
    IF ok THEN [s EXCEPT !.closing = FALSE, !.isConnected = FALSE]
    ELSE [s EXCEPT !.closing = FALSE]

SinkFits(s) ==
    /\ Len(s.buffer) <= MaxBuf
    /\ Len(s.batch) <= MaxBatch
    /\ Len(s.procs) <= MaxProcs
    /\ s.flushTimers <= MaxFlushTimers

\* Mutant: the record is handed to the sink twice.
handleSensorData_writesTwice(n, s, a, data, rejects) ==
    LET w == writeData(writeData(s, data, StdTags, rejects).s, data, StdTags, rejects)
    IN [n |-> n + 1, s |-> w.s, w |-> Call("handle", a, data, StdTags, w)]

\* Application.handleSensorData (part_001:268-299) up to its await; what
\* follows the await only logs.
handleSensorData(n, s, a, data, rejects) ==
    LET w == writeData(s, data, StdTags, rejects)
    IN [n |-> n + 1, s |-> w.s, w |-> Call("handle", a, data, StdTags, w)]

(***************************************************************************)
(* Raw messages and the adapters' handleMessage.  The outcome of handling  *)
(* a message: the event the adapter emits for it ("data" with the record,  *)
(* or "none" when the message is dropped), whether an exception left       *)
(* handleMessage, and whether it called validate.                          *)
(***************************************************************************)
Dropped == [event |-> "none", data |-> Null, threw |-> FALSE, validated |-> FALSE]
EmitsData(record) == [event |-> "data", data |-> record, threw |-> FALSE, validated |-> TRUE]

\* The end of both handleMessage methods (mqtt-client.js:136-147,
\* part_000:115-126): validate, drop an invalid object, emit a valid one.
validateAndEmit(sensorData) ==
    LET validation == validate(sensorData) IN
    IF ~validation.valid THEN [Dropped EXCEPT !.validated = TRUE]
    ELSE EmitsData(validation.data)

\* Mutant: the decoded value is validated without the test for null.
MQTTClient_handleMessage_validatesNull(text) == validateAndEmit(parseJSON(text))

\* Mutant: an invalid message is reported as an 'error' event.
MQTTClient_handleMessage_emitsError(text) ==
    LET data == parseJSON(text) IN
    IF data.type \in {"null", "falsy"} THEN Dropped
    ELSE IF ~validate(data).valid
    THEN [event |-> "error", data |-> Null, threw |-> FALSE, validated |-> TRUE]
    ELSE EmitsData(validate(data).data)

\* MQTTClient.handleMessage (mqtt-client.js:124-156): the decoded value is
\* validated as it is.
MQTTClient_handleMessage(text) ==
    LET data == parseJSON(text) IN
    IF data.type \in {"null", "falsy"} THEN Dropped      \* if (!data) return
    ELSE validateAndEmit(data)

\* message.payload when it is truthy (part_000:110-112): a string is parsed,
\* anything else is taken as it is.
payloadOf(message) ==
    IF message.payload = "object" THEN JsonObject(message.pf)
    ELSE IF message.payload = "string" THEN parseJSON(Text(JsonObject(message.pf)))
    ELSE parseJSON(Malformed)

\* WebSocketClient.handleMessage (part_000:95-134): a truthy message.payload
\* replaces the message before validation.
WebSocketClient_handleMessage(text) ==
    LET message == parseJSON(text) IN
    IF message.type \in {"null", "falsy"} THEN Dropped   \* if (!message) return
    ELSE IF message.payload \in {"object", "string", "malformed"}
    THEN validateAndEmit(payloadOf(message))
    ELSE validateAndEmit(message)

\* Sensor objects that fail validation
Incomplete == JsonObject([Sensor1.f EXCEPT !["humidity"] = Absent])
OutOfRange == JsonObject([Sensor1.f EXCEPT !["pm10"] = Num(1001)])

\* The raw messages the adapters of the Application receive
RawMessages ==
    {Malformed, Text(JsonNull), Text(JsonScalar), Text(Incomplete), Text(OutOfRange),
     Text(Sensor1), Text(Sensor2),
     Text(Envelope(NoFields, "object", Sensor1.f)),
     Text(Envelope(NoFields, "string", Sensor2.f)),
     Text(Envelope(NoFields, "malformed", NoFields)),
     Text(Envelope(Sensor2.f, "falsy", NoFields)),
     Text(Envelope(Sensor1.f, "object", Sensor2.f))}

(***************************************************************************)
(* Scheduling.  A macrotask (timer, socket event, signal) runs only when   *)
(* no continuation of `await this.writeData(...)` is queued, because such  *)
(* continuations are microtasks.  After close() has finished, shutdown()   *)
(* runs on to process.exit with only microtasks in between.                *)
(***************************************************************************)
MacroTask ==
    /\ ~Draining(sink)
    /\ \/ phase \in {"running", "component"}
       \/ phase = "shutdown" /\ sink.closing

MicroTask == phase \in {"running", "component", "shutdown"}

SetApp(c) ==
    /\ dataClient' = c.dataClient
    /\ useMQTT' = c.useMQTT
    /\ adapters' = c.adapters
    /\ timers' = c.timers

\* A step of the controller that does not touch the sink
AppStep(c, w) ==
    /\ Fits(c)
    /\ SetApp(c)
    /\ last' = w
    /\ UNCHANGED <<phase, env, dataPointCount, sink, input, result>>

\* A step of the sink that does not touch the controller
SinkFrame(r) ==
    /\ SinkFits(r.s)
    /\ sink' = r.s
    /\ last' = r.w
    /\ UNCHANGED <<phase, env, dataClient, useMQTT, dataPointCount, adapters, timers>>

SinkStep(r) == SinkFrame(r) /\ UNCHANGED <<input, result>>

\* wrapper.emit('data', record) from adapter a: the Application's listener,
\* if it is attached, runs handleSensorData (part_001:208, 244).
EmitDataUpTo(a, out, max) ==
    IF out.event = "data" /\ adapters[a].wired
    THEN /\ dataPointCount < max
         /\ \E rejects \in BOOLEAN :
              LET h == handleSensorData(dataPointCount, sink, a, out.data, rejects) IN
              /\ SinkFits(h.s)
              /\ dataPointCount' = h.n
              /\ sink' = h.s
              /\ last' = h.w
         /\ UNCHANGED <<phase, env, dataClient, useMQTT, adapters, timers>>
    ELSE /\ last' = NoWrite
         /\ UNCHANGED <<phase, env, dataClient, useMQTT, dataPointCount, adapters,
                        timers, sink>>

EmitData(a, out) == EmitDataUpTo(a, out, MaxData)

\* Application.shutdown (part_001:340-362) up to `await influxDBWriter.close()`,
\* entered from controller state c; w records what called it.
shutdown(c, w) ==
    /\ SetApp(IF c.dataClient # 0 THEN disconnect(c, c.dataClient) ELSE c)
    /\ sink' = closeBegin(sink)
    /\ phase' = "shutdown"
    /\ last' = w
    /\ UNCHANGED <<env, dataPointCount, input, result>>

\* The wrapper's handler of the client's 'error' event (mqtt-client.js:91-95,
\* part_000:73-77) has cleared isConnected and calls this.emit('error', error).
\* With a listener attached the listener runs.  With none, emit throws, the
\* exception leaves the client's callback, and the process handler of
\* 'uncaughtException' (part_001:380-386) calls app.shutdown().
ErrorEvent(c, a) ==
    IF c.adapters[a].wired
    THEN AppStep(emitError(c, a), NoWrite)
    ELSE shutdown(c, Event("uncaught", a, TRUE))

IsMqtt(a) == a \in 1 .. Len(adapters) /\ adapters[a].kind = "mqtt"
IsWs(a) == a \in 1 .. Len(adapters) /\ adapters[a].kind = "ws"

(***************************************************************************)
(* Application.start (part_001:168-196): connect the sink, then start the  *)
(* data client.  connect() has no await inside, so nothing runs between.   *)
(***************************************************************************)
Start ==
    /\ phase = "new"
    /\ \E ok \in BOOLEAN :
         /\ sink' = InfluxDBWriter_connect(sink, ok)
         /\ SetApp(startDataClient(App, env))
    /\ phase' = "running"
    /\ last' = NoWrite
    /\ UNCHANGED <<env, dataPointCount, input, result>>

(***************************************************************************)
(* Events of the underlying mqtt client (mqtt-client.js:63-117)            *)
(***************************************************************************)
\* 'connect' (65-83)
MqttConnect(a) ==
    /\ MacroTask /\ IsMqtt(a) /\ adapters[a].conn = "connecting"
    /\ LET h == MQTTClient_onConnect(adapters[a])
       IN AppStep([App EXCEPT !.adapters[a] = h.r], Opened(a, adapters[a].reconnectAttempts, h.sent))

\* 'message' (86-88)
MqttReceive(a, m) ==
    /\ MacroTask /\ IsMqtt(a) /\ adapters[a].conn \in {"open", "closing"}
    /\ EmitData(a, MQTTClient_handleMessage(m))

MqttMessage(a, m) == MqttReceive(a, m) /\ UNCHANGED <<input, result>>

\* 'error' (91-95).  The client can still report an error of its socket
\* while end() is in progress.
MqttError(a) ==
    /\ MacroTask /\ IsMqtt(a) /\ adapters[a].conn \in {"connecting", "open", "closing"}
    /\ ErrorEvent([App EXCEPT !.adapters[a].isConnected = FALSE], a)

\* 'close' (106-110), followed by 'offline' (113-116) which sets the same flag;
\* the library then waits reconnectPeriod before it reconnects.
MqttClose(a) ==
    /\ MacroTask /\ IsMqtt(a) /\ adapters[a].conn \in {"connecting", "open"}
    /\ AppStep([App EXCEPT !.adapters[a].conn = "waiting",
                           !.adapters[a].isConnected = FALSE],
               NoWrite)

\* 'reconnect' (98-103)
MqttReconnect(a) ==
    /\ MacroTask /\ IsMqtt(a) /\ adapters[a].conn = "waiting"
    /\ adapters[a].reconnectAttempts < MaxMqttReconnects
    /\ AppStep([App EXCEPT !.adapters[a].conn = "connecting",
                           !.adapters[a].reconnectAttempts = @ + 1],
               NoWrite)

\* the callback of client.end (163-166) and the final 'close' (106-110)
MqttEndDone(a) ==
    /\ MacroTask /\ IsMqtt(a) /\ adapters[a].conn = "closing"
    /\ AppStep([App EXCEPT !.adapters[a].conn = "closed",
                           !.adapters[a].isConnected = FALSE],
               NoWrite)

(***************************************************************************)
(* Events of the underlying WebSocket (part_000:50-89) and the reconnect   *)
(* timer (part_000:159-161)                                                *)
(***************************************************************************)
\* Mutant: 'open' leaves the reconnect counter as it is.
WsOpen_keepsCount(a) ==
    /\ MacroTask /\ IsWs(a) /\ adapters[a].conn = "connecting"
    /\ LET h == WebSocketClient_onOpen(adapters[a])
       IN AppStep([App EXCEPT !.adapters[a] =
                                [h.r EXCEPT !.reconnectAttempts =
                                                adapters[a].reconnectAttempts]],
                  Opened(a, adapters[a].reconnectAttempts, h.sent))

\* 'open' (52-65)
WsOpen(a) ==
    /\ MacroTask /\ IsWs(a) /\ adapters[a].conn = "connecting"
    /\ LET h == WebSocketClient_onOpen(adapters[a])
       IN AppStep([App EXCEPT !.adapters[a] = h.r], Opened(a, adapters[a].reconnectAttempts, h.sent))

\* 'message' (68-70)
WsReceive(a, m) ==
    /\ MacroTask /\ IsWs(a) /\ adapters[a].conn = "open"
    /\ EmitData(a, WebSocketClient_handleMessage(m))

WsMessage(a, m) == WsReceive(a, m) /\ UNCHANGED <<input, result>>

\* Mutant: the 'error' handler schedules a reconnect as the 'close' handler does.
WsError_schedulesReconnect(a) ==
    /\ MacroTask /\ IsWs(a) /\ adapters[a].conn \in {"connecting", "open"}
    /\ AppStep(scheduleReconnect(
                   emitError([App EXCEPT !.adapters[a].isConnected = FALSE], a), a),
               NoWrite)

\* 'error' (73-77)
WsError(a) ==
    /\ MacroTask /\ IsWs(a) /\ adapters[a].conn \in {"connecting", "open"}
    /\ ErrorEvent([App EXCEPT !.adapters[a].isConnected = FALSE], a)

\* 'close' (80-88)
WsClose(a) ==
    /\ MacroTask /\ IsWs(a) /\ adapters[a].conn \in {"connecting", "open", "closing"}
    /\ AppStep(scheduleReconnect([App EXCEPT !.adapters[a].conn = "closed",
                                             !.adapters[a].isConnected = FALSE], a),
               NoWrite)

\* the reconnect timer fires (159-161)
WsReconnectTimer(a) ==
    /\ MacroTask /\ IsWs(a) /\ adapters[a].timer
    /\ AppStep(WebSocketClient_connect([App EXCEPT !.adapters[a].timer = FALSE], a, env),
               NoWrite)

(***************************************************************************)
(* Timers of the Application                                               *)
(***************************************************************************)
GraceTimerFires(i) ==
    /\ MacroTask /\ CanFire(timers, i) /\ timers[i].type = "grace"
    /\ AppStep(graceTimeout([App EXCEPT !.timers = RemoveAt(@, i)], env),
               Event("grace", timers[i].by, TRUE))

CooldownTimerFires(i) ==
    /\ MacroTask /\ CanFire(timers, i) /\ timers[i].type = "cooldown"
    /\ AppStep(cooldownTimeout([App EXCEPT !.timers = RemoveAt(@, i)], env),
               Event("cooldown", timers[i].by, TRUE))

(***************************************************************************)
(* The flush interval of the sink (part_000:293-313)                       *)
(***************************************************************************)
FlushFires ==
    /\ MacroTask /\ sink.flushTimers > 0 /\ sink.writeApi
    /\ SinkFrame([s |-> flushTick(sink), w |-> NoWrite])

FlushTick == FlushFires /\ UNCHANGED <<input, result>>

FlushDone(p, ok) ==
    /\ MicroTask /\ (phase = "shutdown" => sink.closing)
    /\ p \in 1 .. Len(sink.procs) /\ sink.procs[p].pc = "flushing"
    /\ \E rejects \in BOOLEAN : SinkStep(flushResolved(sink, p, ok, rejects))

DrainContinue(p) ==
    /\ MicroTask
    /\ p \in 1 .. Len(sink.procs) /\ sink.procs[p].pc = "draining"
    /\ \E rejects \in BOOLEAN : SinkStep(drainNext(sink, p, rejects))

CloseDone(ok) ==
    /\ MicroTask /\ sink.closing
    /\ SinkStep([s |-> closeEnd(sink, ok), w |-> NoWrite])

(***************************************************************************)
(* Shutdown: SIGINT / SIGTERM (part_001:369-377) call app.shutdown(), which *)
(* runs on to process.exit(0) once close() has returned (part_001:351-361). *)
(***************************************************************************)
Signal ==
    /\ MacroTask /\ phase \in {"running", "shutdown"}
    /\ shutdown(App, Event("signal", 0, TRUE))

Exit ==
    /\ phase = "shutdown" /\ ~sink.closing
    /\ phase' = "exited"
    /\ last' = NoWrite
    /\ UNCHANGED <<env, dataClient, useMQTT, dataPointCount, adapters, timers, sink,
                   input, result>>

(***************************************************************************)
(* The Application                                                         *)
(***************************************************************************)
Init ==
    /\ phase = "new"
    /\ env \in [mqttThrows : BOOLEAN, wsThrows : BOOLEAN]
    /\ dataClient = 0
    /\ useMQTT = TRUE
    /\ dataPointCount = 0
    /\ adapters = <<>>
    /\ timers = <<>>
    /\ sink = InfluxDBWriter
    /\ input = NoInput
    /\ result = NoResult
    /\ last = NoWrite

Next ==
    \/ Start
    \/ \E a \in 1 .. MaxAdapters : MqttConnect(a)
    \/ \E a \in 1 .. MaxAdapters, m \in RawMessages : MqttMessage(a, m)
    \/ \E a \in 1 .. MaxAdapters : MqttError(a)
    \/ \E a \in 1 .. MaxAdapters : MqttClose(a)
    \/ \E a \in 1 .. MaxAdapters : MqttReconnect(a)
    \/ \E a \in 1 .. MaxAdapters : MqttEndDone(a)
    \/ \E a \in 1 .. MaxAdapters : WsOpen(a)
    \/ \E a \in 1 .. MaxAdapters, m \in RawMessages : WsMessage(a, m)
    \/ \E a \in 1 .. MaxAdapters : WsError(a)
    \/ \E a \in 1 .. MaxAdapters : WsClose(a)
    \/ \E a \in 1 .. MaxAdapters : WsReconnectTimer(a)
    \/ \E i \in 1 .. MaxTimers : GraceTimerFires(i)
    \/ \E i \in 1 .. MaxTimers : CooldownTimerFires(i)
    \/ FlushTick
    \/ \E p \in 1 .. MaxProcs, ok \in BOOLEAN : FlushDone(p, ok)
    \/ Signal
    \/ \E ok \in BOOLEAN : CloseDone(ok)
    \/ Exit

Spec == Init /\ [][Next]_vars

\* A connection attempt does not stay pending: it opens or it closes
ConnectSettles(a) ==
    /\ a \in Ids(App) /\ adapters[a].conn = "connecting"
    /\ MqttConnect(a) \/ MqttClose(a) \/ WsOpen(a) \/ WsClose(a)

\* The ws client emits 'close' after every 'error' of a socket
WsErrorCloses(a) ==
    /\ IsWs(a) /\ adapters[a].conn = "open" /\ ~adapters[a].isConnected
    /\ WsClose(a)

\* What the event loop guarantees: a timer that is due fires, a pending
\* promise of the store client settles, a closing connection closes, a
\* connection attempt settles, a socket that reported an error closes.  No
\* other event of the network (error, close of a healthy connection, message)
\* is guaranteed.
Fairness ==
    /\ WF_vars(\E a \in 1 .. MaxAdapters : ConnectSettles(a))
    /\ WF_vars(\E a \in 1 .. MaxAdapters : WsErrorCloses(a))
    /\ WF_vars(Start)
    /\ WF_vars(\E i \in 1 .. MaxTimers : GraceTimerFires(i))
    /\ WF_vars(\E i \in 1 .. MaxTimers : CooldownTimerFires(i))
    /\ WF_vars(\E a \in 1 .. MaxAdapters : WsReconnectTimer(a))
    /\ WF_vars(\E a \in 1 .. MaxAdapters : MqttEndDone(a))
    /\ WF_vars(FlushTick)
    /\ WF_vars(\E p \in 1 .. MaxProcs, ok \in BOOLEAN : FlushDone(p, ok))
    /\ WF_vars(\E ok \in BOOLEAN : CloseDone(ok))
    /\ WF_vars(Exit)

FairSpec == Init /\ [][Next]_vars /\ Fairness

(***************************************************************************)
(* The sink on its own, driven through its public methods by any caller:   *)
(* connect(), writeData(data, tags) and close() in any order, with the     *)
(* flush interval running.                                                 *)
(***************************************************************************)
ApiConnect(ok) ==
    /\ MacroTask /\ phase = "component"
    /\ SinkStep([s |-> InfluxDBWriter_connect(sink, ok), w |-> NoWrite])

ApiWriteData(data, tags, rejects) ==
    /\ MacroTask /\ phase = "component"
    /\ LET w == writeData(sink, data, tags, rejects) IN
       SinkStep([s |-> w.s, w |-> Call("call", 0, data, tags, w)])

ApiClose ==
    /\ MacroTask /\ phase = "component" /\ ~sink.closing
    /\ SinkStep([s |-> closeBegin(sink), w |-> NoWrite])

SinkInit ==
    /\ phase = "component"
    /\ env = [mqttThrows |-> FALSE, wsThrows |-> FALSE]
    /\ dataClient = 0
    /\ useMQTT = TRUE
    /\ dataPointCount = 0
    /\ adapters = <<>>
    /\ timers = <<>>
    /\ sink = InfluxDBWriter
    /\ input = NoInput
    /\ result = NoResult
    /\ last = NoWrite

SinkNext ==
    \/ \E ok \in BOOLEAN : ApiConnect(ok)
    \/ \E data \in Records, tags \in Tags, rejects \in BOOLEAN :
         ApiWriteData(data, tags, rejects)
    \/ ApiClose
    \/ \E ok \in BOOLEAN : CloseDone(ok)
    \/ FlushTick
    \/ \E p \in 1 .. MaxProcs, ok \in BOOLEAN : FlushDone(p, ok)
    \/ \E p \in 1 .. MaxProcs : DrainContinue(p)

SinkSpec == SinkInit /\ [][SinkNext]_vars

(***************************************************************************)
(* The validator on its own: validate applied to one decoded JSON value.   *)
(* Every field takes the values around the two bounds of its range.        *)
(***************************************************************************)
SampleValues(field) ==
    LET r == ranges[field] IN
    {Absent, NotNumeric, Num(r.min - 1), NumHalf(r.min - 1), Num(r.min), Num(r.max),
     NumHalf(r.max), Num(r.max + 1)}

SampleObjects ==
    {[temperature |-> t, humidity |-> h, pm1 |-> a, pm2_5 |-> b, pm10 |-> c] :
        t \in SampleValues("temperature"), h \in SampleValues("humidity"),
        a \in SampleValues("pm1"), b \in SampleValues("pm2_5"),
        c \in SampleValues("pm10")}

ValidatorInputs ==
    {JsonNull, JsonFalsy, JsonScalar} \cup {JsonObject(f) : f \in SampleObjects}

Done(r) == [done |-> TRUE] @@ r

ValidatorInit ==
    /\ phase = "function"
    /\ env = [mqttThrows |-> FALSE, wsThrows |-> FALSE]
    /\ dataClient = 0
    /\ useMQTT = TRUE
    /\ dataPointCount = 0
    /\ adapters = <<>>
    /\ timers = <<>>
    /\ sink = InfluxDBWriter
    /\ input \in ValidatorInputs
    /\ result = NoResult
    /\ last = NoWrite

Validate ==
    /\ phase = "function" /\ ~result.done
    /\ result' = Done(validate(input)) @@ [log |-> validate_log(input)]
    /\ UNCHANGED <<phase, env, dataClient, useMQTT, dataPointCount, adapters, timers,
                   sink, input, last>>

ValidatorNext == Validate

ValidatorSpec == ValidatorInit /\ [][ValidatorNext]_vars

(***************************************************************************)
(* One raw message delivered to the adapter the Application is using: the  *)
(* primary, open after start, or the secondary, open after a failover.     *)
(* The message is a sensor object with one field varied, bare or inside an *)
(* envelope.                                                               *)
(***************************************************************************)
MessageObjects ==
    {NoFields} \cup
    {[o EXCEPT ![field] = v] :
        o \in {Sensor1.f, Sensor2.f}, field \in Fields,
        v \in UNION {SampleValues(g) : g \in Fields}}

MessageInputs ==
    {Malformed, Text(JsonNull), Text(JsonFalsy), Text(JsonScalar)}
    \cup {Text(Envelope(f, p, NoFields)) :
            f \in MessageObjects, p \in {"absent", "falsy"}}
    \cup {Text(Envelope(f, p, pf)) :
            f \in {NoFields, Sensor2.f, Incomplete.f}, p \in {"object", "string"},
            pf \in MessageObjects}
    \cup {Text(Envelope(f, "malformed", NoFields)) :
            f \in {NoFields, Sensor2.f, Incomplete.f}}

OpenAdapter(r) ==
    [r EXCEPT !.wired = TRUE, !.isConnected = TRUE, !.conn = "open",
              !.connectCalled = TRUE]

MessageInit ==
    /\ phase = "running"
    /\ env = [mqttThrows |-> FALSE, wsThrows |-> FALSE]
    /\ \/ /\ adapters = <<OpenAdapter(MQTTClient)>>
          /\ dataClient = 1 /\ useMQTT = TRUE
       \/ /\ adapters = <<[MQTTClient EXCEPT !.conn = "closed", !.connectCalled = TRUE],
                          OpenAdapter(WebSocketClient)>>
          /\ dataClient = 2 /\ useMQTT = FALSE
    /\ dataPointCount = 0
    /\ timers = <<>>
    /\ \E ok \in BOOLEAN : sink = InfluxDBWriter_connect(InfluxDBWriter, ok)
    /\ input \in MessageInputs
    /\ result = NoResult
    /\ last = NoWrite

MqttInput ==
    /\ ~result.done
    /\ MqttReceive(dataClient, input)
    /\ result' = Done(MQTTClient_handleMessage(input))
    /\ input' = input

WsInput ==
    /\ ~result.done
    /\ WsReceive(dataClient, input)
    /\ result' = Done(WebSocketClient_handleMessage(input))
    /\ input' = input

MessageNext == MqttInput \/ WsInput

MessageSpec == MessageInit /\ [][MessageNext]_vars

(***************************************************************************)
(* A feed of raw messages arriving one after the other at the adapter the  *)
(* Application is using, with the flush interval of the sink running.      *)
(* input is the part of the feed still to arrive.  result is history: the  *)
(* records of the data events in arrival order, each with what writeData   *)
(* returned for it, and the points flush() has taken from the batch.       *)
(***************************************************************************)
StreamMessages == {Text(Sensor1), Text(Sensor2), Text(Incomplete)}

Feeds == [1 .. MaxArrivals -> StreamMessages]

StreamInit ==
    /\ phase = "running"
    /\ env = [mqttThrows |-> FALSE, wsThrows |-> FALSE]
    /\ \/ /\ adapters = <<OpenAdapter(MQTTClient)>>
          /\ dataClient = 1 /\ useMQTT = TRUE
       \/ /\ adapters = <<[MQTTClient EXCEPT !.conn = "closed", !.connectCalled = TRUE],
                          OpenAdapter(WebSocketClient)>>
          /\ dataClient = 2 /\ useMQTT = FALSE
    /\ dataPointCount = 0
    /\ timers = <<>>
    /\ \E ok \in BOOLEAN : sink = InfluxDBWriter_connect(InfluxDBWriter, ok)
    /\ input \in Feeds
    /\ result = [done |-> FALSE, arrived |-> <<>>, flushed |-> <<>>]
    /\ last = NoWrite

StreamArrival ==
    /\ Len(input) > 0
    /\ MacroTask /\ adapters[dataClient].conn = "open"
    /\ LET out == IF IsMqtt(dataClient) THEN MQTTClient_handleMessage(Head(input))
                  ELSE WebSocketClient_handleMessage(Head(input))
       IN /\ EmitDataUpTo(dataClient, out, MaxArrivals)
          /\ result' = [result EXCEPT
                          !.arrived = IF out.event = "data"
                                      THEN Append(@, [data |-> out.data, ok |-> last'.ret])
                                      ELSE @,
                          !.done = Len(input) = 1]
    /\ input' = Tail(input)

StreamFlush ==
    /\ FlushFires
    /\ result' = [result EXCEPT !.flushed = @ \o sink.batch]
    /\ input' = input

StreamNext == StreamArrival \/ StreamFlush \/ \E ok \in BOOLEAN : FlushDone(1, ok)

StreamSpec == StreamInit /\ [][StreamNext]_vars

(***************************************************************************)
(* Properties                                                              *)
(***************************************************************************)
\* An adapter instance is active when the controller's listeners are attached
\* to it and it is connected, connecting or scheduled to reconnect.
Active(a) ==
    /\ adapters[a].wired
    /\ \/ adapters[a].conn \in {"connecting", "open", "waiting"}
       \/ adapters[a].timer

ActiveAdapters == {a \in 1 .. Len(adapters) : Active(a)}

\* C1: in every reachable state of the Application at most one adapter
\* instance is active; two adapters are never active concurrently.
C1_AtMostOneActive == Cardinality(ActiveAdapters) <= 1

\* The controller's state names
UsingPrimary == useMQTT
UsingSecondary == ~useMQTT

\* The adapter was disconnected: no client, or end() / close() was called
Disconnected(r) == r.conn \in {"none", "closing", "closed"}

\* A primary the controller tore down: its listeners were removed
TornDown(a) == adapters[a].kind = "mqtt" /\ ~adapters[a].wired

\* C2: when a grace timer fires while the controller is UsingPrimary and its
\* primary (dataClient) is not connected(), the step ends UsingSecondary with a
\* new secondary adapter constructed, wired and connect() called on it, and
\* the primary disconnected with its listeners removed; a primary that was
\* torn down stays so and no later data event of it reaches handleSensorData.
C2_Failover ==
    /\ [][(last'.op = "grace" /\ UsingPrimary /\ ~adapters[dataClient].isConnected)
            => /\ UsingSecondary'
               /\ Len(adapters') = Len(adapters) + 1
               /\ dataClient' = Len(adapters')
               /\ adapters'[dataClient'].kind = "ws"
               /\ adapters'[dataClient'].wired
               /\ adapters'[dataClient'].connectCalled
               /\ ~adapters'[dataClient].wired
               /\ Disconnected(adapters'[dataClient])]_vars
    /\ [][\A a \in 1 .. Len(adapters) :
            TornDown(a) => /\ ~adapters'[a].wired
                           /\ Disconnected(adapters'[a])
                           /\ ~(last'.op = "handle" /\ last'.src = a)]_vars

\* C2 witness: a grace timer has just fired and switched: primary 1 is torn
\* down with its connection closing, secondary 2 is the data client.
C2_Witness ==
    /\ UsingSecondary /\ dataClient = 2 /\ adapters[2].kind = "ws"
    /\ TornDown(1) /\ adapters[1].conn = "closing"
    /\ last.op = "grace"

\* C3: when a secondary adapter with the controller's listeners emits failed
\* (its connection closes, or its reconnect cannot create a socket, with the
\* retry budget used up), a cooldown timer is started; when a cooldown timer
\* fires, the step ends UsingPrimary with a new primary adapter constructed,
\* wired and connect() called on it.
EmitsFailed(a) ==
    /\ adapters[a].kind = "ws" /\ adapters[a].wired
    /\ adapters[a].reconnectAttempts >= maxReconnectAttempts
    /\ \/ adapters[a].conn # "closed" /\ adapters'[a].conn = "closed"
       \/ /\ adapters[a].timer /\ ~adapters'[a].timer /\ env.wsThrows
          /\ last'.op \notin {"signal", "uncaught"}    \* fired, not cancelled

C3_Recovery ==
    /\ [][\A a \in 1 .. Len(adapters) :
            EmitsFailed(a) => timers' = Append(timers, CooldownTimer(a))]_vars
    /\ [][last'.op = "cooldown"
            => /\ UsingPrimary'
               /\ Len(adapters') = Len(adapters) + 1
               /\ dataClient' = Len(adapters')
               /\ adapters'[dataClient'].kind = "mqtt"
               /\ adapters'[dataClient'].wired
               /\ adapters'[dataClient'].connectCalled]_vars

\* C3 witness: the cooldown started by the failed secondary 2 has just fired
\* and primary 3 is connecting.
C3_Witness ==
    /\ last.op = "cooldown" /\ last.src = 2 /\ adapters[2].kind = "ws"
    /\ UsingPrimary /\ dataClient = 3 /\ adapters[3].kind = "mqtt"
    /\ adapters[3].conn = "connecting"

\* C4: when a grace timer fires while the controller is UsingPrimary and its
\* primary reports connected(), nothing changes: the controller stays
\* UsingPrimary, the primary keeps its connection and its listeners, and no
\* adapter is constructed.
C4_NoFlapping ==
    [][(last'.op = "grace" /\ UsingPrimary /\ adapters[dataClient].isConnected)
         => /\ UsingPrimary'
            /\ dataClient' = dataClient
            /\ adapters' = adapters]_vars

\* C4 witness: a grace timer has just fired on a primary that had recovered.
C4_Witness ==
    /\ last.op = "grace" /\ UsingPrimary /\ dataClient = 1
    /\ adapters[1].isConnected /\ adapters[1].wired /\ adapters[1].conn = "open"
    /\ Len(adapters) = 1

\* No further adapter instance fits the model's bound
Full == Len(adapters) >= MaxAdapters

\* A cooldown timer is pending that the bound keeps from firing
Blocked == Full /\ \E i \in 1 .. Len(timers) : timers[i].type = "cooldown"

\* The process is shutting down or has exited
Stopping == phase \in {"shutdown", "exited"}

CooldownPending == \E i \in 1 .. Len(timers) : timers[i].type = "cooldown"

\* A new primary connect attempt has just been made by a cooldown timer
PrimaryRetried ==
    /\ last.op = "cooldown" /\ UsingPrimary
    /\ adapters[dataClient].kind = "mqtt" /\ adapters[dataClient].connectCalled

IsWrite(l) == l.op \in {"handle", "drain", "call"}

InBuffer(r) == \E i \in 1 .. Len(sink.buffer) : sink.buffer[i].data = r
InBatch(r) == \E i \in 1 .. Len(sink.batch) : sink.batch[i] = r

\* C6: a writeData call made while the sink is not connected returns false,
\* appends exactly its own item to the end of the buffer and submits nothing
\* to the write batch.
C6_BuffersWhenDisconnected ==
    [][(IsWrite(last') /\ ~sink.isConnected)
         => /\ last'.ret = FALSE
            /\ sink'.buffer = Append(sink.buffer, Item(last'.data, last'.tags))
            /\ sink'.batch = sink.batch]_vars

\* C6 witness: two calls on a disconnected sink left two different items in
\* the buffer, in call order, the second one just now.
C6_Witness ==
    /\ last.op = "call" /\ ~last.ret /\ ~sink.isConnected
    /\ Len(sink.buffer) = 2
    /\ sink.buffer[1].data # sink.buffer[2].data
    /\ sink.buffer[2] = Item(last.data, last.tags)

\* C7: in a flush cycle during which the sink is connected: a successful
\* flush with a non-empty buffer starts the drain; the k-th writeData call of
\* the drain passes the k-th item the buffer held when the flush succeeded;
\* and when the loop ends every one of those items was passed once and the
\* buffer is empty.
C7_DrainFifo ==
    /\ [][(last'.op = "flush" /\ last'.ret /\ sink.isConnected)
            => Len(sink.buffer) = 0]_vars
    /\ [][(last'.op = "drain" /\ sink.isConnected)
            => LET q == sink'.procs[last'.src] IN
               /\ q.i \in 1 .. Len(q.snap)
               /\ q.snap[q.i] = Item(last'.data, last'.tags)]_vars
    /\ [][(last'.op = "drained" /\ sink.isConnected)
            => /\ sink.procs[last'.src].i = Len(sink.procs[last'.src].snap)
               /\ sink'.buffer = <<>>]_vars

\* C7 witness: a drain of two different buffered items has just ended on a
\* connected sink, both are in the write batch in enqueue order.
C7_Witness ==
    /\ last.op = "drained" /\ sink.isConnected
    /\ sink.buffer = <<>>
    /\ sink.batch = <<Record2, Record1>>

\* C8: every record in the sink's buffer is eventually submitted to the
\* store's write batch, unless the process is shut down first.
C8_BufferedEventuallySubmitted ==
    \A r \in Records : [](InBuffer(r) => <>(InBatch(r) \/ Stopping))

\* C9: a writeData call on a connected sink that returns false leaves its
\* record in the buffer.
C9_RejectedWriteIsBuffered ==
    [][(IsWrite(last') /\ sink.isConnected /\ sink.writeApi /\ ~last'.ret)
         => \E i \in 1 .. Len(sink'.buffer) :
              sink'.buffer[i] = Item(last'.data, last'.tags)]_vars

\* C10: no error leaves a writeData call; it returns true when it appended
\* its record to the write batch and false when it left the batch alone.
C10_WriteDataTotal ==
    [][IsWrite(last')
         => /\ ~last'.threw
            /\ last'.ret \in BOOLEAN
            /\ last'.ret = TRUE => sink'.batch = Append(sink.batch, last'.data)
            /\ last'.ret = FALSE => sink'.batch = sink.batch]_vars

\* C10 witness: a call with tags = null on a connected sink has just returned
\* false (the error was caught).
C10_Witness ==
    /\ last.op = "call" /\ last.tags = "null" /\ ~last.ret /\ ~last.threw
    /\ sink.isConnected /\ sink.writeApi

\* C11: when a drain loop ends right after a re-submission that returned
\* false, the item of that call is still in the buffer.
C11_FailedDrainItemKept ==
    [][(last'.op = "drained" /\ last.op = "drain" /\ ~last.ret)
         => \E i \in 1 .. Len(sink'.buffer) :
              sink'.buffer[i] = Item(last.data, last.tags)]_vars

\* The step runs scheduleReconnect of secondary a: its socket closes, or its
\* reconnect timer fires and no socket can be created.
SchedulesReconnect(a) ==
    /\ adapters[a].kind = "ws"
    /\ \/ adapters[a].conn # "closed" /\ adapters'[a].conn = "closed"
       \/ /\ adapters[a].timer /\ env.wsThrows /\ adapters'[a] # adapters[a]
          /\ last'.op \notin {"signal", "uncaught"}

\* Secondary a has given up: budget used, no timer, no socket in use
GivenUp(a) ==
    /\ adapters[a].kind = "ws"
    /\ adapters[a].reconnectAttempts >= maxReconnectAttempts
    /\ ~adapters[a].timer
    /\ adapters[a].conn \in {"none", "closed"}

\* C12: a step that runs scheduleReconnect with fewer than
\* maxReconnectAttempts attempts counted schedules one reconnect, counts it
\* and emits no failed; with the budget used up it schedules nothing and emits
\* failed (a cooldown of the controller starts if it listens); a reconnect
\* timer that fires starts a connection attempt; and a secondary that has
\* given up never changes again.
C12_RetryBudget ==
    /\ [][\A a \in 1 .. Len(adapters) :
            (SchedulesReconnect(a) /\ adapters[a].reconnectAttempts < maxReconnectAttempts)
              => /\ adapters'[a].timer
                 /\ adapters'[a].reconnectAttempts = adapters[a].reconnectAttempts + 1
                 /\ timers' = timers]_vars
    /\ [][\A a \in 1 .. Len(adapters) :
            (SchedulesReconnect(a) /\ adapters[a].reconnectAttempts >= maxReconnectAttempts)
              => /\ ~adapters'[a].timer
                 /\ adapters'[a].reconnectAttempts = adapters[a].reconnectAttempts
                 /\ adapters[a].wired => timers' = Append(timers, CooldownTimer(a))]_vars
    /\ [][\A a \in 1 .. Len(adapters) :
            (/\ adapters[a].kind = "ws" /\ adapters[a].timer /\ ~env.wsThrows
             /\ adapters'[a] # adapters[a] /\ last'.op \notin {"signal", "uncaught"})
              => adapters'[a].conn = "connecting" /\ ~adapters'[a].timer]_vars
    /\ [][\A a \in 1 .. Len(adapters) :
            GivenUp(a) => adapters'[a] = adapters[a]]_vars

\* C12 witness: secondary 2 reconnected once, lost that connection too, has
\* given up, and the cooldown its failed event started is pending.
C12_Witness ==
    /\ Len(adapters) >= 2 /\ GivenUp(2) /\ adapters[2].conn = "closed"
    /\ adapters[2].reconnectAttempts = maxReconnectAttempts
    /\ Len(timers) > 0 /\ timers[Len(timers)] = CooldownTimer(2)
    /\ phase = "running"

\* C13: once disconnect() was called on a secondary (its socket is closing),
\* no reconnect timer is set for it and no failed event of it starts a
\* cooldown.
C13_NoReconnectAfterDisconnect ==
    [][\A a \in 1 .. Len(adapters) :
         (adapters[a].kind = "ws" /\ adapters[a].conn = "closing")
           => /\ ~adapters'[a].timer
              /\ ~(/\ Len(timers') > Len(timers)
                   /\ timers'[Len(timers')] = CooldownTimer(a))]_vars

\* C14: no transport event ends in an uncaught exception.
C14_NoUncaughtException == last.op # "uncaught"

\* C15: validate returns one of two outcomes: valid with a record of the five
\* fields and no errors, or invalid with no data and at least one error.
C15_TaggedOutcome ==
    result.done =>
        \/ /\ result.valid /\ result.data # Null
           /\ DOMAIN result.data = Fields /\ Len(result.errors) = 0
        \/ /\ ~result.valid /\ result.data = Null /\ Len(result.errors) > 0

\* C15 witness: an object with one field out of range and the other four
\* valid was rejected whole.
C15_Witness ==
    /\ result.done /\ input = JsonObject([Sensor2.f EXCEPT !["pm10"] = Num(1001)])
    /\ ~result.valid /\ result.data = Null /\ Len(result.errors) = 1

\* Error entry e is about field
Names(e, field) == \E i \in 1 .. Len(e.fields) : e.fields[i] = field

\* C19: for an object input and every required field absent from it,
\* validate returns valid=false, data=null and an error entry for missing
\* fields that names that field.
C19_MissingFieldNamed ==
    \A field \in Fields :
        (result.done /\ input.type = "object" /\ input.f[field] = Absent)
          => /\ ~result.valid /\ result.data = Null
             /\ \E i \in 1 .. Len(result.errors) :
                  result.errors[i].kind = "missing" /\ Names(result.errors[i], field)

\* C19 witness: an object that lacks humidity and pm10 and is valid otherwise
\* was rejected with one entry that names exactly the two.
C19_Witness ==
    /\ result.done
    /\ input = JsonObject([Sensor2.f EXCEPT !["humidity"] = Absent, !["pm10"] = Absent])
    /\ ~result.valid /\ result.data = Null
    /\ result.errors = <<Err("missing", <<"humidity", "pm10">>, NoRange)>>

\* The number validate compares with the range of field (part_001:48, 60,
\* 71, 83, 95)
parsedValue(data, field) ==
    IF field \in {"temperature", "humidity"}
    THEN parseFloat(data.f[field]) ELSE parseInt(data.f[field])

AtBound(value, range) == ~value.half /\ value.n \in {range.min, range.max}
Outside(value, range) ==
    value.n < range.min \/ value.n > range.max \/ (value.n = range.max /\ value.half)

\* C20: for every field of an object whose parsed value is a number: equal
\* to the minimum or the maximum of the range, no error names the field, and
\* the record is accepted with that value when no other field is in error;
\* below the minimum or above the maximum, validate returns valid=false,
\* data=null and an error entry with the field's range, whatever the other
\* four fields are.
C20_InclusiveRange ==
    \A field \in Fields :
        (result.done /\ input.type = "object" /\ ~parsedValue(input, field).nan)
          => LET value == parsedValue(input, field)
                 others == \A g \in Fields \ {field} :
                             /\ ~parsedValue(input, g).nan
                             /\ ~Outside(parsedValue(input, g), ranges[g])
             IN /\ AtBound(value, ranges[field])
                    => /\ \A i \in 1 .. Len(result.errors) :
                            ~Names(result.errors[i], field)
                       /\ others => result.valid /\ result.data[field] = value
                /\ Outside(value, ranges[field])
                    => /\ ~result.valid /\ result.data = Null
                       /\ \E i \in 1 .. Len(result.errors) :
                            result.errors[i] = Err("range", <<field>>, ranges[field])

\* C20 witness: temperature at its minimum and the other four fields at
\* their maximum were accepted, and so was the record.
C20_Witness ==
    /\ result.done
    /\ input = JsonObject([temperature |-> Num(-50), humidity |-> Num(100),
                           pm1 |-> Num(1000), pm2_5 |-> Num(1000), pm10 |-> Num(1000)])
    /\ result.valid
    /\ result.data = [temperature |-> Number(-50, FALSE), humidity |-> Number(100, FALSE),
                      pm1 |-> Number(1000, FALSE), pm2_5 |-> Number(1000, FALSE),
                      pm10 |-> Number(1000, FALSE)]

\* A record with all five fields, each a number within the bounds declared for
\* it, the three PM fields whole numbers
Complete(record) ==
    /\ DOMAIN record = Fields
    /\ \A field \in Fields :
         /\ ~record[field].nan
         /\ ~Outside(record[field], ranges[field])
         /\ field \in {"pm1", "pm2_5", "pm10"} => ~record[field].half

\* C16: the record of every data event an adapter emits, and so every record
\* handed to the sink (the argument of the writeData call, and what the sink
\* then holds in its buffer or its batch), has all five fields within their
\* bounds, the PM fields as integers.
C16_EmittedRecordComplete ==
    /\ (result.done /\ result.event = "data") => Complete(result.data)
    /\ last.op = "handle"
         => /\ result.done /\ result.event = "data" /\ last.data = result.data
            /\ Complete(last.data)
    /\ \A i \in 1 .. Len(sink.buffer) : Complete(sink.buffer[i].data)
    /\ \A i \in 1 .. Len(sink.batch) : Complete(sink.batch[i])

\* C16 witness: the secondary received an envelope whose payload is the text
\* of a sensor object with fractional PM values at the upper bound, emitted
\* the record with the PM value cut to 1000, and the sink has it in its batch.
C16_Witness ==
    /\ result.done /\ result.event = "data"
    /\ adapters[dataClient].kind = "ws"
    /\ input = Text(Envelope(NoFields, "string", Sensor2.f))
    /\ result.data = Record2 /\ Record2["pm10"] = Number(1000, FALSE)
    /\ last.op = "handle" /\ last.ret
    /\ sink.batch = <<Record2>>

\* C17: whichever adapter receives a raw message, the outcome is the one the
\* other adapter has for the same message (the same data event, or both drop
\* it); a message {payload: P} with P a valid sensor object, or the text of
\* one, ends in a data event with the record of P.
C17_AdaptersAgree ==
    result.done
      => /\ result = Done(MQTTClient_handleMessage(input))
         /\ result = Done(WebSocketClient_handleMessage(input))
         /\ \A P \in {Sensor1, Sensor2}, kind \in {"object", "string"} :
              input = Text(Envelope(NoFields, kind, P.f))
                => result.event = "data" /\ result.data = validate(P).data

\* A raw message that is no JSON text, or whose decoded value fails validation
\* both as it is and, where it has a payload, by its payload
Invalid(text) ==
    \/ ~text.wf
    \/ /\ ~validate(text.value).valid
       /\ \/ text.value.payload \in {"absent", "falsy", "malformed"}
          \/ ~validate(JsonObject(text.value.pf)).valid

\* C18: a step in which the adapter in use handles an invalid raw message
\* emits no event and throws nothing, and leaves the adapters (connection
\* state, isConnected, reconnect counter, reconnect timer), the controller and
\* its timers, the sink and the count of data points as they were: no grace
\* timer is started.
C18_InvalidMessageDropped ==
    [][(~result.done /\ result'.done /\ Invalid(input))
         => /\ result'.event = "none" /\ ~result'.threw
            /\ last' = NoWrite
            /\ UNCHANGED <<phase, dataClient, useMQTT, dataPointCount, adapters, timers,
                           sink>>]_vars

\* C18 witness: the connected primary has handled a sensor object whose pm10
\* is above its range; nothing was emitted, no timer is pending and the
\* primary is still connected.
C18_Witness ==
    /\ result.done /\ input = Text(JsonObject([Sensor2.f EXCEPT !["pm10"] = Num(1001)]))
    /\ result.event = "none" /\ ~result.threw
    /\ adapters[dataClient].kind = "mqtt" /\ adapters[dataClient].isConnected
    /\ adapters[dataClient].conn = "open"
    /\ timers = <<>> /\ dataPointCount = 0

\* The entry validate is to record for a field of an object: none when the
\* field is absent or its parsed value is a number inside the range
Expected(data, field) ==
    IF data.f[field] = Absent THEN <<>>
    ELSE IF parsedValue(data, field).nan THEN <<Err("nan", <<field>>, NoRange)>>
    ELSE IF Outside(parsedValue(data, field), ranges[field])
    THEN <<Err("range", <<field>>, ranges[field])>>
    ELSE <<>>

MissingOf(data) == SelectSeq(requiredFields, LAMBDA field : data.f[field] = Absent)

\* C21: for every object input the error list is: one entry for the missing
\* fields if there are any, then, in the order temperature, humidity, pm1,
\* pm2_5, pm10, one entry for each present field that is non-numeric or out
\* of range; a failing field does not keep the later fields from being
\* checked.
C21_ErrorsAccumulate ==
    (result.done /\ input.type = "object")
      => result.errors =
           (IF Len(MissingOf(input)) > 0
            THEN <<Err("missing", MissingOf(input), NoRange)>> ELSE <<>>)
           \o Expected(input, requiredFields[1]) \o Expected(input, requiredFields[2])
           \o Expected(input, requiredFields[3]) \o Expected(input, requiredFields[4])
           \o Expected(input, requiredFields[5])

\* C21 witness: an object without temperature, with a non-numeric humidity
\* and pm2_5, and pm1 and pm10 out of range got all five entries.
C21_Witness ==
    /\ result.done
    /\ input = JsonObject([temperature |-> Absent, humidity |-> NotNumeric,
                           pm1 |-> Num(1001), pm2_5 |-> NotNumeric, pm10 |-> Num(-1)])
    /\ result.errors = <<Err("missing", <<"temperature">>, NoRange),
                         Err("nan", <<"humidity">>, NoRange),
                         Err("range", <<"pm1">>, ranges["pm1"]),
                         Err("nan", <<"pm2_5">>, NoRange),
                         Err("range", <<"pm10">>, ranges["pm10"])>>

\* C22: a call of validate changes nothing of the adapters, the controller,
\* the sink or its own input, and writes nothing to the log.
C22_ValidatePure ==
    [][(~result.done /\ result'.done)
         => /\ UNCHANGED <<phase, env, dataClient, useMQTT, dataPointCount, adapters,
                           timers, sink, input, last>>
            /\ result'.log = <<>>]_vars

\* The secondary parses a second text, the string payload of the message
\* (part_000:110-111), and that text is malformed
PayloadIsNull(text) ==
    /\ adapters[dataClient].kind = "ws"
    /\ parseJSON(text).type = "object" /\ parseJSON(text).payload = "malformed"
    /\ payloadOf(parseJSON(text)) = JsonNull

\* C23 as stated: parseJSON gives the decoded value of a well-formed text and
\* null for a malformed one, and an adapter that gets null from any of its
\* parseJSON calls drops the message without calling validate.
C23_NullNeverValidated ==
    result.done
      => /\ input.wf => parseJSON(input) = input.value
         /\ ~input.wf => parseJSON(input) = JsonNull
         /\ (parseJSON(input) = JsonNull \/ PayloadIsNull(input))
              => result.event = "none" /\ ~result.threw /\ ~result.validated

\* C23 amended: parseJSON gives the decoded value of a well-formed text and
\* null for a malformed one; an adapter whose raw message decodes to null
\* drops it without calling validate (no event, nothing thrown); a secondary
\* whose string payload decodes to null passes the null to validate and
\* drops the message on its verdict.
C23_MalformedIsNull ==
    result.done
      => /\ input.wf => parseJSON(input) = input.value
         /\ ~input.wf => parseJSON(input) = JsonNull
         /\ parseJSON(input) = JsonNull
              => result.event = "none" /\ ~result.threw /\ ~result.validated
         /\ PayloadIsNull(input)
              => result.event = "none" /\ ~result.threw /\ result.validated

\* C23 witness: the open primary got a text that is no JSON and dropped it
\* without validating; no data point was counted.
C23_Witness ==
    /\ result.done /\ input = Malformed
    /\ adapters[dataClient].kind = "mqtt"
    /\ result.event = "none" /\ ~result.validated
    /\ dataPointCount = 0 /\ last = NoWrite

\* C24: once the Application has a dataClient, in every state between two
\* callbacks the health answer names the class of that instance (useMQTT
\* holds exactly when it is a primary) and reports that instance's
\* connected().
C24_HealthReflectsTransport ==
    dataClient # 0
      => /\ useMQTT <=> adapters[dataClient].kind = "mqtt"
         /\ ~useMQTT <=> adapters[dataClient].kind = "ws"
         /\ healthStatus(App).type = "MQTT" <=> adapters[dataClient].kind = "mqtt"
         /\ healthStatus(App).type = "WebSocket" <=> adapters[dataClient].kind = "ws"
         /\ healthStatus(App).connected = adapters[dataClient].isConnected

\* C24 witness: after a failover the secondary is open while the primary it
\* replaced still exists, closed; the health answer is WebSocket, connected.
C24_Witness ==
    /\ phase = "running" /\ dataClient = 2
    /\ adapters[1].kind = "mqtt" /\ adapters[1].conn = "closed"
    /\ adapters[2].kind = "ws" /\ adapters[2].conn = "open"
    /\ healthStatus(App) = [type |-> "WebSocket", connected |-> TRUE]

\* The records among seq for which writeData returned true
Accepted(seq) ==
    LET kept == SelectSeq(seq, LAMBDA x : x.ok) IN [i \in 1 .. Len(kept) |-> kept[i].data]

\* C25: while the sink is connected, the points submitted to the write batch
\* (those flush() has taken and those pending) are the records of the valid
\* messages the adapter received, in the order of their arrival, without
\* those whose write was refused.
C25_ArrivalOrder ==
    sink.isConnected => result.flushed \o sink.batch = Accepted(result.arrived)

\* C25 witness: three valid messages arrived with a flush after the second;
\* the two records flushed and the one pending are in the order of arrival.
C25_Witness ==
    /\ sink.isConnected /\ Len(input) = 0 /\ dataPointCount = 3
    /\ result.flushed = <<Record1, Record2>> /\ sink.batch = <<Record1>>
    /\ Accepted(result.arrived) = <<Record1, Record2, Record1>>

\* C26: in every step that makes another adapter the dataClient, the adapter
\* it replaces ends disconnected and with no listener of the Application
\* attached, whether a secondary replaces a primary or a primary a secondary.
C26_TeardownBeforeAttach ==
    [][(dataClient # 0 /\ dataClient' # dataClient)
         => /\ ~adapters'[dataClient].wired
            /\ Disconnected(adapters'[dataClient])]_vars

\* C27: a grace timer that fires when the controller is not UsingPrimary, or
\* when the primary whose error started it is no longer the dataClient, has
\* no effect: no adapter is constructed and the dataClient is not replaced.
C27_GraceTimerOwnPrimary ==
    [][(last'.op = "grace" /\ (UsingSecondary \/ last'.src # dataClient))
         => /\ dataClient' = dataClient
            /\ useMQTT' = useMQTT
            /\ adapters' = adapters]_vars

\* C28: while the controller is UsingSecondary, a step replaces the dataClient
\* only when the cooldown timer started by the failed event of that same
\* secondary fires; the secondary replaced has given up (not connected, retry
\* budget used, no reconnect pending) and the new dataClient is a primary.
C28_ReplacedOnlyAfterOwnFailed ==
    [][(UsingSecondary /\ phase = "running" /\ dataClient' # dataClient)
         => /\ last'.op = "cooldown" /\ last'.src = dataClient
            /\ GivenUp(dataClient) /\ ~adapters[dataClient].isConnected
            /\ adapters'[dataClient'].kind = "mqtt"]_vars

\* C29: the reconnect counter of a secondary is always between 0 and
\* maxReconnectAttempts; a step in which its socket opens leaves it 0; every
\* step that sets its reconnect timer adds one to it; and it changes in no
\* other way, so between two opens at most maxReconnectAttempts reconnects
\* are scheduled.
C29_ReconnectCounter ==
    /\ [](\A a \in 1 .. Len(adapters) :
            adapters[a].kind = "ws"
              => /\ adapters[a].reconnectAttempts >= 0
                 /\ adapters[a].reconnectAttempts <= maxReconnectAttempts)
    /\ [][\A a \in 1 .. Len(adapters) :
            (adapters[a].kind = "ws" /\ adapters[a].conn # "open"
             /\ adapters'[a].conn = "open")
              => adapters'[a].reconnectAttempts = 0]_vars
    /\ [][\A a \in 1 .. Len(adapters) :
            (adapters[a].kind = "ws" /\ ~adapters[a].timer /\ adapters'[a].timer)
              => /\ adapters'[a].reconnectAttempts = adapters[a].reconnectAttempts + 1
                 /\ adapters[a].reconnectAttempts < maxReconnectAttempts]_vars
    /\ [][\A a \in 1 .. Len(adapters) :
            (adapters[a].kind = "ws"
             /\ adapters'[a].reconnectAttempts # adapters[a].reconnectAttempts)
              => \/ adapters'[a].conn = "open" /\ adapters'[a].reconnectAttempts = 0
                 \/ adapters'[a].timer
                      /\ adapters'[a].reconnectAttempts
                           = adapters[a].reconnectAttempts + 1]_vars

\* C29 witness: secondary 2 lost its connection and its last reconnect
\* attempt within the budget is in progress: the counter is at
\* maxReconnectAttempts, the timer has fired, the new socket is connecting.
C29_Witness ==
    /\ Len(adapters) = 2 /\ adapters[2].kind = "ws"
    /\ adapters[2].reconnectAttempts = maxReconnectAttempts
    /\ adapters[2].conn = "connecting" /\ ~adapters[2].timer
    /\ ~adapters[2].isConnected /\ dataClient = 2 /\ phase = "running"

\* Pending cooldown timers started by the failed event of adapter a
Cooldowns(ts, a) == Cardinality({i \in 1 .. Len(ts) : ts[i] = CooldownTimer(a)})

\* C30: a secondary emits failed at most once: the step in which its failed
\* event starts a cooldown timer takes it from not given up to given up with
\* exactly one such timer pending; an adapter that has given up never changes
\* and starts no further cooldown; and when its cooldown timer fires, one
\* new primary is constructed and no other cooldown of it is pending.
C30_FailedAtMostOnce ==
    /\ [][\A a \in 1 .. Len(adapters) :
            Cooldowns(timers', a) > Cooldowns(timers, a)
              => /\ EmitsFailed(a) /\ ~GivenUp(a)
                 /\ adapters'[a].reconnectAttempts >= maxReconnectAttempts
                 /\ ~adapters'[a].timer /\ adapters'[a].conn \in {"none", "closed"}
                 /\ Cooldowns(timers', a) = 1]_vars
    /\ [][\A a \in 1 .. Len(adapters) :
            GivenUp(a) => /\ adapters'[a] = adapters[a]
                          /\ Cooldowns(timers', a) <= Cooldowns(timers, a)]_vars
    /\ [][\A a \in 1 .. Len(adapters) :
            (last'.op = "cooldown" /\ last'.src = a)
              => /\ GivenUp(a)
                 /\ Cooldowns(timers, a) = 1 /\ Cooldowns(timers', a) = 0
                 /\ Len(adapters') = Len(adapters) + 1]_vars

\* C30 witness: secondary 2 emitted failed once, its cooldown has fired and
\* the primary built by it is open; the secondary has given up, still has
\* its listeners, and no cooldown of it is pending.
C30_Witness ==
    /\ Len(adapters) = 3 /\ dataClient = 3 /\ adapters[3].kind = "mqtt"
    /\ adapters[3].conn = "open"
    /\ adapters[2].kind = "ws" /\ GivenUp(2) /\ adapters[2].wired
    /\ Cooldowns(timers, 2) = 0 /\ phase = "running"

\* The step ends `await this.writeApi.flush()` of flush callback p
FlushSettles(p) ==
    /\ p \in 1 .. Len(sink.procs) /\ sink.procs[p].pc = "flushing"
    /\ last'.op \in {"flush", "drain"} /\ last'.src = p

\* C31: when the flush of a callback throws, or the sink is not connected
\* when it completes, the step re-submits nothing and leaves the buffer and
\* the write batch as they were, and the flush interval stays set.
C31_FailedFlushKeepsBuffer ==
    [][\A p \in 1 .. MaxProcs :
         (FlushSettles(p) /\ (~sink.isConnected \/ (last'.op = "flush" /\ ~last'.ret)))
           => /\ last'.op = "flush"
              /\ sink'.buffer = sink.buffer
              /\ sink'.batch = sink.batch
              /\ sink'.flushTimers = sink.flushTimers /\ sink'.flushTimers > 0]_vars

\* C31 witness: a flush has just thrown on a connected sink that holds two
\* different buffered items; both are still there, in order.
C31_Witness ==
    /\ last.op = "flush" /\ ~last.ret /\ sink.isConnected
    /\ Len(sink.buffer) = 2 /\ sink.buffer[1].data # sink.buffer[2].data
    /\ sink.procs = <<>> /\ sink.flushTimers > 0

\* C32: a flush cycle re-submits at most as many items as the buffer held
\* when its drain started, whatever happens to the connected flag while the
\* drain is suspended: the k-th writeData call of a drain has k no larger than
\* the number of items buffered when the flush succeeded.
C32_DrainBounded ==
    [][last'.op = "drain"
         => sink'.procs[last'.src].i <= Len(sink'.procs[last'.src].snap)]_vars

\* The value adapter a hands to validate for raw message text: the decoded
\* message, or for the secondary its truthy payload
sensorDataOf(a, text) ==
    LET message == parseJSON(text) IN
    IF IsWs(a) /\ message.payload \in {"object", "string", "malformed"}
    THEN payloadOf(message) ELSE message

\* Raw message text is valid for adapter a
ValidFor(a, text) ==
    /\ parseJSON(text).type \notin {"null", "falsy"}
    /\ validate(sensorDataOf(a, text)).valid

\* The step is one writeData call on the sink with record and the fixed tags
OneWrite(record) ==
    /\ last'.op = "handle" /\ last'.data = record /\ last'.tags = StdTags
    /\ \E rejects \in BOOLEAN :
         LET w == writeData(sink, record, StdTags, rejects) IN
         sink' = w.s /\ last'.ret = w.ret

\* C33: the arrival of a valid raw message at the adapter in use causes one
\* data event with its record, one increment of dataPointCount and one
\* writeData call with that record and the fixed tag set, whatever the call
\* returns; no other step counts a data point or calls writeData, so the
\* count equals the number of data events and the sink holds no more records
\* than arrived.
C33_ConsumedOnce ==
    /\ [][(Len(input) > 0 /\ input' = Tail(input) /\ ValidFor(dataClient, Head(input)))
            => LET record == validate(sensorDataOf(dataClient, Head(input))).data IN
               /\ Len(result'.arrived) = Len(result.arrived) + 1
               /\ result'.arrived[Len(result'.arrived)].data = record
               /\ dataPointCount' = dataPointCount + 1
               /\ OneWrite(record)]_vars
    /\ [][(input' = input \/ ~ValidFor(dataClient, Head(input)))
            => /\ dataPointCount' = dataPointCount
               /\ result'.arrived = result.arrived
               /\ last'.op \notin {"handle", "call", "drain"}
               /\ sink'.buffer = sink.buffer
               /\ Len(sink'.batch) <= Len(sink.batch)]_vars
    /\ [](/\ dataPointCount = Len(result.arrived)
          /\ Len(result.flushed) + Len(sink.batch) + Len(sink.buffer) <= dataPointCount)

\* C33 witness: three valid messages arrived at the secondary: the write of
\* one succeeded, of another failed; nothing is buffered and one record is in
\* the batch or flushed for the one success.
C33_Witness ==
    /\ Len(input) = 0 /\ dataPointCount = 3 /\ IsWs(dataClient)
    /\ sink.isConnected /\ last.op = "handle" /\ last.tags = StdTags
    /\ \E i, j \in 1 .. 3 : result.arrived[i].ok /\ ~result.arrived[j].ok
    /\ Len(result.flushed) + Len(sink.batch) = Len(Accepted(result.arrived))

\* The positions in sent of the things of that name
Positions(sent, name) == {i \in 1 .. Len(sent) : sent[i].name = name}

\* C34: in every step in which a connection of an adapter opens, first or
\* again, its handler issues one subscribe for the configured topic (the
\* secondary as a control message sent on the socket) and emits connected
\* once, with connected() true and the reconnect counter 0 at that moment;
\* and nothing is subscribed or emitted as connected in any other step.
C34_SubscribeOnOpen ==
    /\ [][\A a \in 1 .. Len(adapters) :
            (adapters[a].conn = "connecting" /\ adapters'[a].conn = "open")
              => LET sent == last'.sent IN
                 /\ last'.op = "open" /\ last'.src = a
                 /\ Cardinality(Positions(sent, "subscribe")) = 1
                 /\ \A i \in Positions(sent, "subscribe") :
                      /\ sent[i].topic = Topic
                      /\ sent[i].kind = IF IsWs(a) THEN "send" ELSE "call"
                 /\ Cardinality(Positions(sent, "connected")) = 1
                 /\ \A i \in Positions(sent, "connected") :
                      /\ sent[i].kind = "emit"
                      /\ sent[i].connected /\ sent[i].reconnectAttempts = 0
                 /\ connected(App', a) /\ adapters'[a].reconnectAttempts = 0]_vars
    /\ [][last'.sent # <<>>
            => /\ last'.op = "open"
               /\ adapters[last'.src].conn = "connecting"
               /\ adapters'[last'.src].conn = "open"]_vars

\* C34 witness: the secondary has opened again after its last permitted
\* reconnect attempt and has sent its subscribe message.
C34_Witness ==
    /\ last.op = "open" /\ IsWs(last.src) /\ last.attempts = maxReconnectAttempts
    /\ Positions(last.sent, "subscribe") = {1}
    /\ connected(App, last.src) /\ adapters[last.src].reconnectAttempts = 0
====
